---------------------------- MODULE Spec2Model ----------------------------
(***************************************************************************)
(* Verification model of the polis-metadata-tool extraction core:          *)
(* the five platform extractors (extract() of BaseExtractor and of its     *)
(* overriding subclasses), the Facebook variant/strategy cascade, and the  *)
(* pipeline boundary app.extract_metadata().                               *)
(*                                                                         *)
(* Python None is modelled as the empty tuple <<>> and a present value v   *)
(* as <<v>>, so that "unknown" and "zero" stay distinct.                   *)
(***************************************************************************)
EXTENDS Integers, Sequences, FiniteSets, TLC

\* ------------------------------------------------------------------ bounds
MaxCount == 1
NRand == 2

\* ------------------------------------------------------- option encoding
None == <<>>
Some(v) == <<v>>
IsNone(o) == o = <<>>
IsSome(o) == o # <<>>
Val(o) == o[1]

\* Python truthiness of an optional string / optional integer.
TruthyStr(o) == IsSome(o) /\ Val(o) # ""
TruthyInt(o) == IsSome(o) /\ Val(o) # 0

\* Python "a or b" on optional values.
OrElseStr(a, b) == IF TruthyStr(a) THEN a ELSE b

Min2(a, b) == IF a < b THEN a ELSE b
Max2(a, b) == IF a > b THEN a ELSE b

Counts == 0..MaxCount
OptCounts == {None} \cup {Some(n) : n \in Counts}
RandIds == 1..NRand

\* ------------------------------------------------------------ identifiers
\* An identifier is prefix + digest(seed) or prefix + random characters.
MkId(prefix, kind, seed, n) == [prefix |-> prefix, kind |-> kind, seed |-> seed, n |-> n]

\* BaseExtractor.generate_post_id / generate_op_id: "if seed:" is false for
\* None and for the empty string, and then the id is drawn at random (r).
generate_post_id(seed, r) ==
    IF TruthyStr(seed) THEN MkId("po", "sha256", Val(seed), 0)
    ELSE MkId("po", "rnd", "", r)

generate_op_id(seed, r) ==
    IF TruthyStr(seed) THEN MkId("op", "sha256", Val(seed), 0)
    ELSE MkId("op", "rnd", "", r)

\* TikTokExtractor._generate_post_id / _generate_op_id: always random.
tiktok_generate_post_id(r) == MkId("po", "rnd", "", r)
tiktok_generate_op_id(r) == MkId("op", "rnd", "", r)

\* YouTubeExtractor._generate_post_id: always random.
youtube_generate_post_id(r) == MkId("po", "rnd", "", r)

\* YouTubeExtractor._generate_op_id: md5 of the channel id, else random.
youtube_generate_op_id(channel_id, r) ==
    IF TruthyStr(channel_id) THEN MkId("op", "md5", Val(channel_id), 0)
    ELSE MkId("op", "rnd", "", r)

\* FacebookExtractor._generate_op_id: md5 of the lower-cased username with
\* every non-alphanumeric character removed.
FbCleanUsername(u) ==
    CASE u = "Unknown User" -> "unknownuser"
      [] u = "Alice" -> "alice"
      [] OTHER -> u

facebook_generate_op_id(username) == MkId("fb_user", "md5", FbCleanUsername(username), 0)

\* FacebookExtractor._generate_post_id: digits of the URL or md5 of the URL.
facebook_generate_post_id(url) == MkId("fb", "url", url, 0)

\* -------------------------------------------------------- engagement rate
\* Sign of the error of the floating-point value (e / v) * 100 against the
\* exact quotient, where that quotient lies halfway between two hundredths.
\* The table covers v <= 3, v = 100 and v = 160 with e <= 80; for every
\* other pair of that range the product is exact or not halfway.
FloatErrSign(e, v) ==
    IF v = 160 /\ e \in {23, 41, 51} THEN -1
    ELSE IF v = 160 /\ e \in {11, 49} THEN 1
    ELSE 0

\* round((e / v) * 100, 2), kept in hundredths: round() goes to the nearest
\* hundredth of the floating-point product, and to the even one when the
\* product is exactly halfway.
RoundHundredths(e, v) ==
    LET n == 10000 * e
        q == n \div v
        r == n % v
    IN  IF 2 * r < v THEN q
        ELSE IF 2 * r > v THEN q + 1
        ELSE IF FloatErrSign(e, v) < 0 THEN q
        ELSE IF FloatErrSign(e, v) > 0 THEN q + 1
        ELSE IF q % 2 = 0 THEN q ELSE q + 1

ZeroIfNone(o) == IF TruthyInt(o) THEN Val(o) ELSE 0

\* Variant of the rate that answers 0.0 where the view count is unusable.
CalculateEngagementRateZeroDefault(views, likes, comments, shares) ==
    IF IsNone(views) \/ views = Some(0) THEN Some(0)
    ELSE IF IsNone(likes) /\ IsNone(comments) /\ IsNone(shares) THEN None
    ELSE Some(RoundHundredths(ZeroIfNone(likes) + ZeroIfNone(comments) + ZeroIfNone(shares),
                              Val(views)))

\* BaseExtractor._calculate_engagement_rate_from_dict: the rate component.
CalculateEngagementRate(views, likes, comments, shares) ==
    IF IsNone(views) \/ views = Some(0) THEN None
    ELSE IF IsNone(likes) /\ IsNone(comments) /\ IsNone(shares) THEN None
    ELSE Some(RoundHundredths(ZeroIfNone(likes) + ZeroIfNone(comments) + ZeroIfNone(shares),
                              Val(views)))

\* BaseExtractor._calculate_engagement_rate_from_dict: (rate, missing).
calculate_engagement_rate_from_dict(md) ==
    [ rate |-> CalculateEngagementRate(md.views, md.likes, md.comments, md.shares),
      missing |-> [ views |-> IsNone(md.views), likes |-> IsNone(md.likes),
                    comments |-> IsNone(md.comments), shares |-> IsNone(md.shares) ] ]

\* ---------------------------------------------------------------- records
\* A returned post dict.  A key the dict does not carry is None here, except
\* extraction_status, whose absence ("absent") the callers test for.
BlankPost ==
    [ Post_ID |-> None, Post_caption |-> None, Post_title |-> None,
      Post_hashtags |-> None, Post_type |-> None, Post_date |-> None,
      Post_views |-> None, Post_likes |-> None, Post_shares |-> None,
      Post_comments |-> None, Post_saves |-> None, Post_reposts |-> None,
      Post_engagement_rate |-> None, Post_language |-> None,
      OP_username |-> None, OP_ID |-> None,
      extraction_status |-> "absent", error_message |-> None ]

\* A returned OP dict; the empty dict {} of the failure paths is BlankOp.
BlankOp ==
    [ OP_username |-> None, OP_ID |-> None, OP_bio |-> None,
      OP_followers |-> None, OP_following |-> None, OP_post |-> None,
      OP_platform |-> None ]

\* The error dict of every failure path of extract().
ErrorData(msg) == [BlankPost EXCEPT !.extraction_status = "failed", !.error_message = Some(msg)]

\* What a call of extract() gives its caller.
NoResult == [kind |-> "none", post |-> BlankPost, op |-> BlankOp, msg |-> ""]
Pair(post, op) == [kind |-> "pair", post |-> post, op |-> op, msg |-> ""]
Raise(msg) == [kind |-> "raise", post |-> BlankPost, op |-> BlankOp, msg |-> msg]
FailedPair(msg) == Pair(ErrorData(msg), BlankOp)

\* ------------------------------------------------------ derived fields
\* The sample detect_language looks at: text[:200].
SampleChars == 200

\* A string is a sequence of runs of characters of one class: "a" ASCII
\* letters, "s" ASCII whitespace, "w" non-ASCII letters, "u" non-ASCII
\* whitespace (U+3000 and the like, which str.strip() removes too).
Run(c, n) == [c |-> c, n |-> n]
CharClasses == {"a", "s", "w", "u"}
RunLengths == {1, 40, 160, SampleChars}
MaxRuns == 3
Str(runs) == [type |-> "str", runs |-> runs]
NonStr(type, truthy) == [type |-> type, truthy |-> truthy]

RECURSIVE StrLen(_)
StrLen(runs) == IF runs = <<>> THEN 0 ELSE Head(runs).n + StrLen(Tail(runs))

\* Number of characters of class c among the first `limit` characters.
RECURSIVE ClassCount(_, _, _)
ClassCount(runs, c, limit) ==
    IF runs = <<>> \/ limit = 0 THEN 0
    ELSE LET take == Min2(Head(runs).n, limit)
         IN  (IF Head(runs).c = c THEN take ELSE 0)
                + ClassCount(Tail(runs), c, limit - take)

\* The body both detect_language and _detect_language run on a non-empty
\* string.  ascii_count / total_count > 0.8 is a comparison of doubles; the
\* quotient of two integers up to 200 is either the double 0.8 itself or
\* away from it by at least 0.001, so it agrees with 5 * ascii > 4 * total.
SampleLanguage(runs) ==
    LET total_count == Min2(StrLen(runs), SampleChars)
        ascii_count == ClassCount(runs, "a", SampleChars) + ClassCount(runs, "s", SampleChars)
        blank == ClassCount(runs, "a", SampleChars) + ClassCount(runs, "w", SampleChars) = 0
    IN  IF blank THEN None
        ELSE IF 5 * ascii_count > 4 * total_count THEN Some("en")
        ELSE Some("other")

\* BaseExtractor.detect_language(text) on any argument.
base_detect_language(text) ==
    IF text.type # "str" THEN None
    ELSE IF StrLen(text.runs) = 0 THEN None
    ELSE SampleLanguage(text.runs)

\* TikTokExtractor._detect_language(text): a falsy argument gives None; a
\* truthy one that is not a string raises inside the try block (slicing an
\* int, .strip() of a list, ord() of a bytes element), which gives None.
tiktok_detect_language(text) ==
    IF text.type # "str" THEN None
    ELSE IF StrLen(text.runs) = 0 THEN None
    ELSE SampleLanguage(text.runs)

\* The texts of the runs below are tokens: "" is the empty string, "zh" a
\* text of non-ASCII letters, every other token a text of ASCII letters.
TokenText(tok) ==
    CASE tok = "" -> Str(<<>>)
      [] tok = "zh" -> Str(<<Run("w", SampleChars)>>)
      [] OTHER -> Str(<<Run("a", SampleChars)>>)

detect_language(text) ==
    IF IsNone(text) THEN None ELSE base_detect_language(TokenText(Val(text)))

\* BaseExtractor.detect_post_type.
detect_post_type(platform_name, md) ==
    IF platform_name \in {"tiktok", "youtube"} THEN "video"
    ELSE IF platform_name = "news" THEN "article"
    ELSE IF platform_name = "reddit" THEN
        IF md.is_video THEN "video"
        ELSE IF md.post_hint = "image" THEN "image"
        ELSE IF md.post_hint = "link" THEN "link"
        ELSE IF md.media /\ ~TruthyStr(md.content) THEN "image"
        ELSE IF TruthyStr(md.content) THEN "text"
        ELSE "link"
    ELSE "unknown"

\* BaseExtractor.format_post_csv_data.
format_post_csv_data(platform_name, md, post_id, op_id) ==
    [ BlankPost EXCEPT
        !.Post_ID = Some(post_id),
        !.Post_caption = OrElseStr(md.content, OrElseStr(md.title, Some(""))),
        !.Post_title = md.title,
        !.Post_hashtags = md.hashtags,
        !.Post_type = Some(detect_post_type(platform_name, md)),
        !.Post_date = md.publish_date,
        !.Post_views = md.views,
        !.Post_likes = md.likes,
        !.Post_shares = md.shares,
        !.Post_comments = md.comments,
        !.Post_engagement_rate =
            CalculateEngagementRate(md.views, md.likes, md.comments, md.shares),
        !.Post_language = detect_language(OrElseStr(md.content, OrElseStr(md.title, Some("")))),
        !.OP_username = md.author,
        !.OP_ID = Some(op_id) ]

\* BaseExtractor.format_op_csv_data.
format_op_csv_data(platform_name, md, op_id) ==
    [ BlankOp EXCEPT
        !.OP_username = md.author,
        !.OP_ID = Some(op_id),
        !.OP_platform = Some(platform_name) ]

\* ------------------------------------------------ extract_metadata results
\* What extract_metadata() of a BaseExtractor subclass can do: raise, or
\* return a metadata dict (possibly one already marked 'failed').
MdRaise(msg) == [kind |-> "raise", msg |-> msg, status |-> "absent"]
MdDict(md, status) == [kind |-> "dict", msg |-> "", status |-> status, md |-> md]

\* Texts of Exception objects.  A library exception constructed without
\* arguments has the empty text.
InvalidUrlMsg == "Invalid URL format for this platform"
LibraryExcMsgs == {"", "timed out"}

\* RedditExtractor.extract_metadata: every exception is re-raised with a
\* descriptive prefix; otherwise the metadata dict of the listing.  The dict
\* has no 'post_hint' key, so metadata.get('post_hint', '') is ''.
RedditMetadata ==
    [ title : {Some("t")}, author : {Some("alice"), Some("[deleted]")},
      content : {Some(""), Some("x")}, publish_date : {None, Some("d1")},
      views : {None}, likes : {Some(n) : n \in Counts},
      comments : {Some(n) : n \in Counts}, shares : {Some(n) : n \in Counts},
      hashtags : {Some("[]")}, is_video : BOOLEAN, media : BOOLEAN,
      post_hint : {""} ]

RedditExtractMetadata ==
    {MdRaise("Failed to extract Reddit metadata: HTTP 500")}
        \cup {MdDict(md, "absent") : md \in RedditMetadata}

\* A metadata dict marked 'failed' is handed back as it is: its raw keys
\* (content, title, views, ...) are shown under the matching record fields.
RawAsReturned(md) ==
    [ BlankPost EXCEPT
        !.Post_caption = md.content, !.Post_title = md.title,
        !.Post_views = md.views, !.Post_likes = md.likes,
        !.Post_shares = md.shares, !.Post_comments = md.comments,
        !.extraction_status = "failed" ]

\* BaseExtractor.extract once validate_url() has passed and the politeness
\* delay has elapsed: the part from extract_metadata() to the return.
BaseExtractAfterDelay(platform_name, out, r1, r2) ==
    IF out.kind = "raise" THEN FailedPair(out.msg)
    ELSE IF out.status = "failed" THEN Pair(RawAsReturned(out.md), BlankOp)
    ELSE LET post_id == generate_post_id(None, r1)
             op_id == generate_op_id(None, r2)
             post == format_post_csv_data(platform_name, out.md, post_id, op_id)
         IN  Pair([post EXCEPT !.extraction_status = "success"],
                  format_op_csv_data(platform_name, out.md, op_id))

\* ------------------------------------------------------------------ state
VARIABLES
    platform,   \* platform string handed to app.extract_metadata
    extractor,  \* "real": the repository's extractor class; "double": a
                \* stand-in bound to the class name app.extract_metadata calls
    url,        \* what the extractor's URL is like
    pc,         \* position of the run
    log,        \* external events of the run, in order
    ret,        \* what extract() gave its caller
    tt,         \* TikTok: post_data_raw and the fallback's basic_data
    news,       \* News: the (post_data, op_data) being built
    fb,         \* Facebook: locals of extract()
    metadata,   \* the dict app.extract_metadata returned
    call,       \* a helper method called on its own: arguments and result
    sys_stderr, \* the process-wide sys.stderr
    threads,    \* concurrent News runs: position and local old_stderr of each
    session_state, \* st.session_state of the app: last_metadata
    rerun       \* the last run of app.main(): its inputs and what it displayed

vars == <<platform, extractor, url, pc, log, ret, tt, news, fb, metadata, call,
          sys_stderr, threads, session_state, rerun>>
stderr_vars == <<sys_stderr, threads>>
app_vars == <<session_state, rerun>>
run_vars == <<platform, extractor, url, pc, log, ret, tt, news, fb, metadata, call>>

Platforms == {"reddit", "tiktok", "youtube", "facebook", "news"}

\* url.valid: validate_url() of the platform's extractor accepts it;
\* url.site: which site-specific branch the URL text selects;
\* url.user: the URL carries an @username path segment.
\* url.www: the normalised URL contains "www.facebook.com".
Urls == [valid : BOOLEAN, site : {"plain", "substack", "medium"}, user : BOOLEAN,
         www : BOOLEAN]

PlainUrl(v) == [valid |-> v, site |-> "plain", user |-> FALSE, www |-> FALSE]

Real == extractor = "real"

Emit(e) == log' = Append(log, e)

\* ------------------------------------------------- Reddit (BaseExtractor)
\* BaseExtractor.extract up to and including the politeness delay.
Base_Validate ==
    /\ pc = "pending" /\ platform = "reddit" /\ Real
    /\ IF ~url.valid
       THEN /\ ret' = FailedPair(InvalidUrlMsg)
            /\ pc' = "returned"
            /\ UNCHANGED log
       ELSE /\ Emit("delay")
            /\ pc' = "fetching"
            /\ UNCHANGED ret
    /\ UNCHANGED <<call, stderr_vars, app_vars, platform, extractor, url, tt, news, fb, metadata>>

\* BaseExtractor.extract from extract_metadata() on, for RedditExtractor.
Reddit_ExtractMetadata ==
    /\ pc = "fetching" /\ platform = "reddit"
    /\ \E out \in RedditExtractMetadata, r1 \in RandIds, r2 \in RandIds :
          ret' = BaseExtractAfterDelay("reddit", out, r1, r2)
    /\ Emit("net")
    /\ pc' = "returned"
    /\ UNCHANGED <<call, stderr_vars, app_vars, platform, extractor, url, tt, news, fb, metadata>>

\* ----------------------------------------------------------------- TikTok
\* The JSON object tiktok_post_standalone.py prints (RAW format).
TikTokPostRaw ==
    [ content : {None, Some("x")}, title : {None}, author_id : {None, Some("alice")},
      views : OptCounts, likes : OptCounts, comments : OptCounts, shares : OptCounts ]

\* The JSON object tiktok_op_standalone.py prints, or None when it failed.
TikTokProfileRaw == {None, Some([followers |-> Some(MaxCount), following |-> Some(0)])}

\* TikTokExtractor.extract_metadata: the username the profile is fetched for.
TikTokUsername(raw, u) ==
    IF TruthyStr(raw.author_id) THEN raw.author_id
    ELSE IF u.user THEN Some("urluser") ELSE Some("Unknown")

\* TikTokExtractor._build_phase2_structure, with the status extract() adds.
build_phase2_structure(post_raw, profile_raw, username, r1, r2) ==
    LET post_id == tiktok_generate_post_id(r1)
        op_id == tiktok_generate_op_id(r2)
        l == ZeroIfNone(post_raw.likes)
        c == ZeroIfNone(post_raw.comments)
        s == ZeroIfNone(post_raw.shares)
        rate == IF TruthyInt(post_raw.views) /\ (l # 0 \/ c # 0 \/ s # 0)
                THEN Some(RoundHundredths(l + c + s, Val(post_raw.views)))
                ELSE None
        post == [ BlankPost EXCEPT
                    !.Post_ID = Some(post_id),
                    !.Post_caption = OrElseStr(post_raw.content, post_raw.title),
                    !.Post_hashtags = Some("[]"),
                    !.Post_type = Some("video"),
                    !.Post_views = post_raw.views,
                    !.Post_likes = post_raw.likes,
                    !.Post_shares = post_raw.shares,
                    !.Post_comments = post_raw.comments,
                    !.Post_engagement_rate = rate,
                    !.Post_language = detect_language(OrElseStr(post_raw.content, post_raw.title)),
                    !.OP_username = username,
                    !.OP_ID = Some(op_id) ]
        op == [ BlankOp EXCEPT
                    !.OP_username = username,
                    !.OP_ID = Some(op_id),
                    !.OP_followers = IF IsSome(profile_raw) THEN Val(profile_raw).followers ELSE None,
                    !.OP_following = IF IsSome(profile_raw) THEN Val(profile_raw).following ELSE None,
                    !.OP_platform = Some("tiktok") ]
    IN  [post |-> post, op |-> op]

\* TikTokExtractor._try_oembed: the basic data dict, by whether the oEmbed
\* request succeeded.
try_oembed(ok) ==
    IF ok THEN [title |-> Some("x"), content |-> Some("x"), author_id |-> Some("alice"),
                publish_date |-> Some("N/A")]
    ELSE [title |-> Some("No title found"), content |-> Some(""), author_id |-> None,
          publish_date |-> Some("N/A")]

\* TikTokExtractor._fallback_minimal.
fallback_minimal(basic_data, u, r1, r2) ==
    LET username == IF u.user THEN Some("urluser")
                    ELSE IF TruthyStr(basic_data.author_id) THEN basic_data.author_id
                    ELSE Some("Unknown")
        post_id == tiktok_generate_post_id(r1)
        op_id == tiktok_generate_op_id(r2)
    IN  [ post |-> [ BlankPost EXCEPT
                       !.Post_ID = Some(post_id),
                       !.Post_caption = OrElseStr(basic_data.content, basic_data.title),
                       !.Post_hashtags = Some("[]"),
                       !.Post_type = Some("video"),
                       !.Post_date = OrElseStr(basic_data.publish_date, Some("N/A")),
                       !.OP_username = username,
                       !.OP_ID = Some(op_id) ],
          op |-> [ BlankOp EXCEPT
                       !.OP_username = username,
                       !.OP_ID = Some(op_id),
                       !.OP_platform = Some("tiktok") ] ]

\* TikTokExtractor.extract, lines 68-77: the status is added when the post
\* dict has none.
DualToPair(result) ==
    Pair(IF result.post.extraction_status = "absent"
         THEN [result.post EXCEPT !.extraction_status = "success"]
         ELSE result.post,
         result.op)

\* TikTokExtractor.extract up to and including the politeness delay.
TikTok_Validate ==
    /\ pc = "pending" /\ platform = "tiktok" /\ Real
    /\ IF ~url.valid
       THEN /\ ret' = FailedPair(InvalidUrlMsg)
            /\ pc' = "returned"
            /\ UNCHANGED log
       ELSE /\ Emit("delay")
            /\ pc' = "fetching"
            /\ UNCHANGED ret
    /\ UNCHANGED <<call, stderr_vars, app_vars, platform, extractor, url, tt, news, fb, metadata>>

\* Locals of TikTokExtractor.extract_metadata, and the requests the post
\* script made in its subprocess.
TtInit == [post_data_raw |-> None, basic_data |-> None, requests |-> <<>>]

\* tiktok_post_standalone.scrape_tiktok on a standard video URL: the
\* requests it makes, by what the post page answers first ("error": the
\* request raises, "short": fewer than 100000 characters, "full") and by
\* whether the parsed page gave views or likes.
PageKinds == {"error", "short", "full"}
scrape_tiktok_requests(page, metrics) ==
    CASE page = "error" -> <<"post_page", "oembed">>
      [] page = "short" -> <<"post_page", "homepage", "post_page">>
                              \o (IF metrics THEN <<>> ELSE <<"oembed">>)
      [] OTHER -> <<"post_page">> \o (IF metrics THEN <<>> ELSE <<"oembed">>)

\* Variant of the post step that goes on to the profile step at once.
PostStepEventsNoPause == <<"subprocess">>

\* External events of a successful post step: subprocess.run of the post
\* script (line 213), then time.sleep(3) (line 162).
PostStepEvents == <<"subprocess", "sleep">>

\* extract_metadata step 1: _extract_post_data and what follows directly.
TikTok_ExtractPostData ==
    /\ pc = "fetching" /\ platform = "tiktok"
    /\ \/ \* script not found: no subprocess is started
          /\ pc' = "tt_fallback"
          /\ UNCHANGED <<log, tt, ret>>
       \/ \* non-zero exit, timeout, invalid JSON or an 'error' key
          /\ log' = Append(log, "subprocess")
          /\ \E page \in PageKinds :
                tt' = [tt EXCEPT !.requests = scrape_tiktok_requests(page, FALSE)]
          /\ pc' = "tt_fallback"
          /\ UNCHANGED ret
       \/ \* the script printed JSON that is not an object: .get() raises
          /\ log' = Append(log, "subprocess")
          /\ ret' = FailedPair("'list' object has no attribute 'get'")
          /\ pc' = "returned"
          /\ \E page \in PageKinds :
                tt' = [tt EXCEPT !.requests = scrape_tiktok_requests(page, FALSE)]
       \/ \* RAW post data; time.sleep(3) before the profile step
          /\ \E raw \in TikTokPostRaw, page \in PageKinds :
                /\ page = "error" => (IsNone(raw.views) /\ IsNone(raw.likes)
                                         /\ IsNone(raw.comments) /\ IsNone(raw.shares))
                /\ tt' = [tt EXCEPT !.post_data_raw = Some(raw),
                                    !.requests = scrape_tiktok_requests(
                                        page, TruthyInt(raw.views) \/ TruthyInt(raw.likes))]
          /\ log' = log \o PostStepEvents
          /\ pc' = "tt_profile"
          /\ UNCHANGED ret
    /\ UNCHANGED <<call, stderr_vars, app_vars, platform, extractor, url, news, fb, metadata>>

\* extract_metadata steps 2 and 3, then the rest of extract().  "profile"
\* is subprocess.run of the profile script, which is not started when the
\* script is not found.
TikTok_ExtractProfileData ==
    /\ pc = "tt_profile" /\ platform = "tiktok"
    /\ \E script \in BOOLEAN, prof \in TikTokProfileRaw, r1 \in RandIds, r2 \in RandIds :
          /\ script \/ prof = None
          /\ log' = IF script THEN Append(log, "profile") ELSE log
          /\ ret' = DualToPair(build_phase2_structure(Val(tt.post_data_raw), prof,
                                   TikTokUsername(Val(tt.post_data_raw), url), r1, r2))
    /\ pc' = "returned"
    /\ UNCHANGED <<call, stderr_vars, app_vars, platform, extractor, url, tt, news, fb, metadata>>

\* _fallback_minimal after a failed post step, then the rest of extract().
TikTok_FallbackMinimal ==
    /\ pc = "tt_fallback" /\ platform = "tiktok"
    /\ \E ok \in BOOLEAN, r1 \in RandIds, r2 \in RandIds :
          /\ tt' = [tt EXCEPT !.basic_data = Some(try_oembed(ok))]
          /\ ret' = DualToPair(fallback_minimal(try_oembed(ok), url, r1, r2))
    /\ Emit("net")
    /\ pc' = "returned"
    /\ UNCHANGED <<call, stderr_vars, app_vars, platform, extractor, url, news, fb, metadata>>

\* ---------------------------------------------------------------- YouTube
\* The parts of the videos().list response the record is built from.
YouTubeVideo ==
    [ viewCount : Counts, likeCount : Counts, commentCount : Counts,
      channelId : {None, Some("ch1")}, channelTitle : {Some("alice")},
      title : {Some("t")}, description : {Some(""), Some("x")},
      defaultLanguage : {None, Some("de")} ]

\* YouTubeExtractor.extract_metadata, lines 154-222.
youtube_build(video, subscribers, r1, r2) ==
    LET post_id == youtube_generate_post_id(r1)
        op_id == youtube_generate_op_id(video.channelId, r2)
        views == video.viewCount
        likes == video.likeCount
        comments == video.commentCount
        posOrNone(n) == IF n > 0 THEN Some(n) ELSE None
        rate == IF views > 0 /\ likes + comments > 0
                THEN Some(RoundHundredths(likes + comments, views))
                ELSE None
        post == [ BlankPost EXCEPT
                    !.Post_ID = Some(post_id),
                    !.Post_title = OrElseStr(video.title, None),
                    !.Post_caption = OrElseStr(video.description, None),
                    !.Post_type = Some("video"),
                    !.Post_views = posOrNone(views),
                    !.Post_likes = posOrNone(likes),
                    !.Post_comments = posOrNone(comments),
                    !.Post_engagement_rate = rate,
                    !.Post_language = OrElseStr(video.defaultLanguage, Some("unknown")),
                    !.OP_username = OrElseStr(video.channelTitle, None),
                    !.OP_ID = Some(op_id) ]
        op == [ BlankOp EXCEPT
                    !.OP_username = OrElseStr(video.channelTitle, None),
                    !.OP_ID = Some(op_id),
                    !.OP_followers = subscribers,
                    !.OP_platform = Some("youtube") ]
    IN  [post |-> post, op |-> op]

\* YouTubeExtractor.extract up to the call of extract_metadata(): there is
\* no politeness delay on this path.
YouTube_Validate ==
    /\ pc = "pending" /\ platform = "youtube" /\ Real
    /\ IF ~url.valid
       THEN /\ ret' = FailedPair(InvalidUrlMsg)
            /\ pc' = "returned"
       ELSE /\ pc' = "fetching"
            /\ UNCHANGED ret
    /\ UNCHANGED <<call, stderr_vars, app_vars, platform, extractor, url, log, tt, news, fb, metadata>>

\* YouTubeExtractor.extract_metadata and the rest of extract().
YouTube_ExtractMetadata ==
    /\ pc = "fetching" /\ platform = "youtube"
    /\ \/ \* client library missing or API key not configured
          /\ \E m \in {"YouTube API client not installed", "YouTube API key not configured"} :
                ret' = FailedPair(m)
          /\ UNCHANGED log
       \/ \* HttpError with a rate-limit reason: back off once, then raise
          /\ ret' = FailedPair("YouTube API 403: rateLimitExceeded")
          /\ log' = log \o <<"net", "sleep">>
       \/ \* any other HttpError, or no items in the response
          /\ \E m \in {"YouTube API 403: forbidden", "Video not found or is private"} :
                ret' = FailedPair(m)
          /\ log' = Append(log, "net")
       \/ \* an exception of the client library that is not an HttpError
          /\ \E m \in LibraryExcMsgs : ret' = FailedPair(m)
          /\ log' = Append(log, "net")
       \/ \* a video; the channel request is made when there is a channel id
          /\ \E video \in YouTubeVideo, subs \in {None, Some(MaxCount)},
                r1 \in RandIds, r2 \in RandIds :
                /\ IsNone(video.channelId) => subs = None
                /\ ret' = DualToPair(youtube_build(video, subs, r1, r2))
                /\ log' = IF IsSome(video.channelId) THEN log \o <<"net", "net">>
                          ELSE Append(log, "net")
    /\ pc' = "returned"
    /\ UNCHANGED <<call, stderr_vars, app_vars, platform, extractor, url, tt, news, fb, metadata>>

\* ------------------------------------------------------------------- News
NewspaperNotInstalledMsg == "Newspaper3k library not installed. Run: pip install newspaper3k"
JsPlaceholder == "Requires JavaScript or authentication"
UnableToExtract == "Unable to extract content - may require JavaScript or authentication"

\* Variant of the placeholder builder whose OP record draws a fresh random
\* id instead of hashing the author name again.
create_empty_article_unseeded(r1, r2, r3) ==
    [ post |-> [ BlankPost EXCEPT
                   !.Post_ID = Some(generate_post_id(None, r1)),
                   !.Post_title = Some(""),
                   !.Post_caption = Some(JsPlaceholder),
                   !.Post_type = Some("article"),
                   !.Post_language = Some("unknown"),
                   !.OP_username = Some("Editorial Team"),
                   !.OP_ID = Some(generate_op_id(Some("Editorial Team"), r2)) ],
      op |-> [ BlankOp EXCEPT
                   !.OP_username = Some("Editorial Team"),
                   !.OP_ID = Some(generate_op_id(None, r3)),
                   !.OP_platform = Some("news") ] ]

\* NewsExtractor._create_empty_article_with_js_flag: generate_op_id is
\* called once for the post dict and once more for the OP dict.
create_empty_article_with_js_flag(r1, r2, r3) ==
    [ post |-> [ BlankPost EXCEPT
                   !.Post_ID = Some(generate_post_id(None, r1)),
                   !.Post_title = Some(""),
                   !.Post_caption = Some(JsPlaceholder),
                   !.Post_type = Some("article"),
                   !.Post_language = Some("unknown"),
                   !.OP_username = Some("Editorial Team"),
                   !.OP_ID = Some(generate_op_id(Some("Editorial Team"), r2)) ],
      op |-> [ BlankOp EXCEPT
                   !.OP_username = Some("Editorial Team"),
                   !.OP_ID = Some(generate_op_id(Some("Editorial Team"), r3)),
                   !.OP_platform = Some("news") ] ]

\* The record both _extract_with_newspaper3k (lines 1334-1372) and
\* _extract_with_requests_html (lines 343-380) build: one op_id, used twice.
news_build(title, author, content, language, r1, r2) ==
    LET post_id == generate_post_id(None, r1)
        op_id == generate_op_id(author, r2)
    IN  [ post |-> [ BlankPost EXCEPT
                       !.Post_ID = Some(post_id),
                       !.Post_title = title,
                       !.Post_caption = content,
                       !.Post_type = Some("article"),
                       !.Post_language = language,
                       !.OP_username = author,
                       !.OP_ID = Some(op_id) ],
          op |-> [ BlankOp EXCEPT
                       !.OP_username = author,
                       !.OP_ID = Some(op_id),
                       !.OP_platform = Some("news") ] ]

\* Texts: "long" is an article text of 200 characters or more, "short" one
\* of fewer than 200 characters.
\* NewsExtractor._is_javascript_blocked.
is_javascript_blocked(content, u) ==
    \/ content \in {Some(JsPlaceholder), Some(UnableToExtract)}
    \/ u.site = "substack" /\ content # Some("long")

\* NewsExtractor.extract before STEP 1: no validate_url(), no delay.
News_Start ==
    /\ pc = "pending" /\ platform = "news" /\ Real
    /\ \/ \* NEWSPAPER_AVAILABLE is False
          /\ ret' = Raise(NewspaperNotInstalledMsg)
          /\ pc' = "returned"
          /\ UNCHANGED log
       \/ \* not a Substack reader URL: nothing is requested here
          /\ pc' = "news_step1"
          /\ UNCHANGED <<ret, log>>
       \/ \* _resolve_substack_publication_url follows a reader URL
          /\ url.site = "substack"
          /\ Emit("net")
          /\ pc' = "news_step1"
          /\ UNCHANGED ret
    /\ UNCHANGED <<call, stderr_vars, app_vars, platform, extractor, url, tt, news, fb, metadata>>

\* STEP 1 and STEP 2: _extract_with_newspaper3k, then the JS test.
News_Newspaper3k ==
    /\ pc = "news_step1" /\ platform = "news"
    /\ log' = log \o <<"sleep", "net">>
    /\ \/ \* non-200 status other than 403, or a parsing error: re-raised
          /\ \E m \in {"Article not found (404). Check if URL is correct.",
                       "Failed to extract article content: "} : ret' = Raise(m)
          /\ pc' = "returned"
          /\ UNCHANGED news
       \/ \* 403, a request error, a placeholder text, or an article
          /\ \E r1 \in RandIds, r2 \in RandIds, r3 \in RandIds :
               \E rec \in {create_empty_article_with_js_flag(r1, r2, r3)} \cup
                          { news_build(Some("t"), a, c, l, r1, r2) :
                               a \in {Some("Editorial Team"), Some("alice")},
                               c \in {Some("long"), Some("short"), Some(UnableToExtract)},
                               l \in {Some("unknown"), Some("en")} } :
                  /\ news' = Some(rec)
                  /\ pc' = IF is_javascript_blocked(rec.post.Post_caption, url)
                           THEN "news_step3" ELSE "news_step4"
          /\ UNCHANGED ret
    /\ UNCHANGED <<call, stderr_vars, app_vars, platform, extractor, url, tt, fb, metadata>>

\* STEP 3: the requests-html fallback for a JS-blocked page.
News_RequestsHtmlFallback ==
    /\ pc = "news_step3" /\ platform = "news"
    /\ \/ \* REQUESTS_HTML_AVAILABLE is False: keep the record, flag the caption
          /\ news' = Some([Val(news) EXCEPT !.post.Post_caption =
                              Some("[JS-Required Site - Install requests-html for full extraction]")])
          /\ UNCHANGED log
       \/ \* rendering failed: keep the record, flag the caption
          /\ news' = Some([Val(news) EXCEPT !.post.Post_caption =
                              Some("[JS-Required Site - Limited Extraction]")])
          /\ Emit("net")
       \/ \* rendering succeeded: both dicts are replaced
          /\ \E r1 \in RandIds, r2 \in RandIds,
                a \in {Some("Editorial Team"), Some("bob")},
                c \in {Some("long"), Some("Content extraction incomplete")} :
                news' = Some(news_build(Some("t"), a, c, Some("unknown"), r1, r2))
          /\ Emit("net")
    /\ pc' = "news_step4"
    /\ UNCHANGED <<call, stderr_vars, app_vars, platform, extractor, url, ret, tt, fb, metadata>>

\* STEP 4 and STEP 5: Substack / Medium enhancement, engagement rate, return.
News_EnhanceAndReturn ==
    /\ pc = "news_step4" /\ platform = "news"
    /\ \/ \* neither Substack nor Medium: Post_views is None, no rate
          /\ url.site = "plain"
          /\ ret' = Pair(Val(news).post, Val(news).op)
          /\ UNCHANGED log
       \/ \* Medium: _get_medium_engagement is not defined anywhere
          /\ url.site = "medium"
          /\ ret' = Raise("'NewsExtractor' object has no attribute '_get_medium_engagement'")
          /\ UNCHANGED log
       \/ \* Substack: no engagement data
          /\ url.site = "substack"
          /\ ret' = Pair(Val(news).post, Val(news).op)
          /\ Emit("net")
       \/ \* Substack: likes, comments, shares and maybe the author bio
          /\ url.site = "substack"
          /\ \E l \in OptCounts, c \in OptCounts, sh \in OptCounts, bio \in {None, Some("bio")} :
                ret' = Pair([Val(news).post EXCEPT !.Post_likes = l, !.Post_comments = c,
                                                   !.Post_shares = sh],
                            IF IsSome(bio) THEN [Val(news).op EXCEPT !.OP_bio = bio]
                            ELSE Val(news).op)
          /\ Emit("net")
    /\ pc' = "returned"
    /\ UNCHANGED <<call, stderr_vars, app_vars, platform, extractor, url, tt, news, fb, metadata>>

\* --------------------------------------------------------------- Facebook
InvalidFacebookUrlMsg == "Invalid Facebook URL. Must be a Facebook post/photo/video/reel URL."
CookieWallMsg == "Facebook cookie wall detected. Provide a valid FB_COOKIE_STRING."
NoVariantsMsg == "Failed to fetch any HTML variants for this URL."

\* What a parsing strategy does on one document: it throws, or it returns
\* the value it found (None when nothing matches).
Outcomes(S) == {[threw |-> FALSE, found |-> v] : v \in S} \cup {[threw |-> TRUE, found |-> None]}
AuthorFound == {None, Some("alice"), Some("Unknown User")}
ContentFound == {None, Some("x"), Some("y")}
DateFound == {None, Some("d1")}
TypeFound == {Some("video")}
TitleFound == {None, Some("t")}

\* FacebookExtractor._safe_call: the value, or the default (None) when the
\* wrapped extractor throws.
safe_call(o) == IF o.threw THEN None ELSE o.found

\* Locals of FacebookExtractor.extract at its start (lines 300-309).
\* What the three variant URLs answer to _get: "ok" a 200 document, "wall"
\* a 200 cookie/consent page, "fail" a network error or another status,
\* "none" when the URL does not contain www.facebook.com and the variant has
\* no URL of its own.
NotRequested == [desktop |-> "none", mobile |-> "none", mbasic |-> "none"]
Served(d, m, b, www) ==
    [ desktop |-> d,
      mobile |-> IF ~www THEN "none" ELSE IF m THEN "ok" ELSE "fail",
      mbasic |-> IF ~www THEN "none" ELSE IF b THEN "ok" ELSE "fail" ]

FbInit ==
    [ variants |-> <<>>, i |-> 0, step |-> "none",
      author |-> None, content |-> None, post_date |-> None,
      likes |-> None, comments |-> None, shares |-> None,
      post_type |-> None, views |-> None, post_title |-> None,
      first_html |-> FALSE,
      served |-> NotRequested,  \* what each variant URL answers
      parsed |-> <<>>,      \* labels of the variants the loop body ran for
      threw |-> FALSE ]     \* the step just taken ended in an exception

\* The early-exit test at the end of the loop body (line 378).
Sufficient(f) ==
    TruthyStr(f.content) /\ (IsSome(f.likes) \/ IsSome(f.comments) \/ IsSome(f.shares))

\* extract() up to the homepage request: validation raises, nothing is
\* returned; the only delay is the random pause after the homepage.
FB_Start ==
    /\ pc = "pending" /\ platform = "facebook" /\ Real
    /\ IF ~url.valid
       THEN /\ ret' = Raise(InvalidFacebookUrlMsg)
            /\ pc' = "returned"
            /\ UNCHANGED log
       ELSE /\ log' = log \o <<"net", "sleep">>
            /\ pc' = "fb_fetch"
            /\ UNCHANGED ret
    /\ UNCHANGED <<call, stderr_vars, app_vars, platform, extractor, url, tt, news, fb, metadata>>

\* Lines 269-293: desktop, mobile and mbasic are requested in this order.
FB_FetchVariants ==
    /\ pc = "fb_fetch" /\ platform = "facebook"
    /\ \E d \in {"ok", "fail", "wall"}, m \in BOOLEAN, b \in BOOLEAN :
         /\ ~url.www => (m /\ b)
         /\ IF d = "wall"
            THEN /\ ret' = Raise(CookieWallMsg)
                 /\ log' = Append(log, "net")
                 /\ pc' = "returned"
                 /\ fb' = [fb EXCEPT !.served = Served(d, m, b, url.www)]
            ELSE LET vs == (IF d = "ok" THEN <<"desktop">> ELSE <<>>)
                           \o (IF url.www /\ m THEN <<"mobile">> ELSE <<>>)
                           \o (IF url.www /\ b THEN <<"mbasic">> ELSE <<>>)
                 IN  /\ log' = log \o (IF url.www THEN <<"net", "net", "net">> ELSE <<"net">>)
                     /\ IF vs = <<>>
                        THEN /\ ret' = Raise(NoVariantsMsg)
                             /\ pc' = "returned"
                             /\ fb' = [fb EXCEPT !.served = Served(d, m, b, url.www)]
                        ELSE /\ fb' = [fb EXCEPT !.variants = vs, !.i = 1, !.step = "parse",
                                                 !.served = Served(d, m, b, url.www)]
                             /\ pc' = "fb_cascade"
                             /\ UNCHANGED ret
    /\ UNCHANGED <<call, stderr_vars, app_vars, platform, extractor, url, tt, news, metadata>>

InStep(st) == pc = "fb_cascade" /\ platform = "facebook" /\ fb.step = st
FbRest == <<call, stderr_vars, app_vars, platform, extractor, url, log, tt, news, metadata>>

\* Lines 323-327: BeautifulSoup(resp.content) is not wrapped by _safe_call.
FB_ParseVariant ==
    /\ InStep("parse")
    /\ \/ /\ fb' = [fb EXCEPT !.first_html = TRUE, !.step = "author", !.threw = FALSE,
                              !.parsed = Append(@, fb.variants[fb.i])]
          /\ UNCHANGED <<pc, ret>>
       \/ /\ fb' = [fb EXCEPT !.threw = TRUE]
          /\ ret' = Raise("ParserRejectedMarkup")
          /\ pc' = "returned"
    /\ UNCHANGED FbRest

\* Lines 329-334.
FB_Author ==
    /\ InStep("author")
    /\ \E o \in Outcomes(AuthorFound) :
         LET a == safe_call(o)
             try == ~TruthyStr(fb.author) \/ fb.author = Some("Unknown User")
         IN  /\ o.threw => try
             /\ fb' = [fb EXCEPT !.author = IF try /\ TruthyStr(a) THEN a ELSE @,
                                 !.threw = o.threw,
                                 !.step = "content"]
    /\ UNCHANGED <<pc, ret>>
    /\ UNCHANGED FbRest

\* Lines 336-341.
FB_Content ==
    /\ InStep("content")
    /\ \E o \in Outcomes(ContentFound) :
         LET c == safe_call(o)
             try == ~TruthyStr(fb.content)
         IN  /\ o.threw => try
             /\ fb' = [fb EXCEPT !.content = IF try /\ TruthyStr(c) THEN c ELSE @,
                                 !.threw = o.threw,
                                 !.step = "date"]
    /\ UNCHANGED <<pc, ret>>
    /\ UNCHANGED FbRest

\* Lines 343-348.
FB_Date ==
    /\ InStep("date")
    /\ \E o \in Outcomes(DateFound) :
         LET d == safe_call(o)
             try == ~TruthyStr(fb.post_date)
         IN  /\ o.threw => try
             /\ fb' = [fb EXCEPT !.post_date = IF try /\ TruthyStr(d) THEN d ELSE @,
                                 !.threw = o.threw,
                                 !.step = "likes"]
    /\ UNCHANGED <<pc, ret>>
    /\ UNCHANGED FbRest

\* Lines 352-356.
FB_Likes ==
    /\ InStep("likes")
    /\ \E o \in Outcomes(OptCounts) :
         LET l == safe_call(o)
             try == IsNone(fb.likes)
         IN  /\ o.threw => try
             /\ fb' = [fb EXCEPT !.likes = IF try /\ IsSome(l) THEN l ELSE @,
                                 !.threw = o.threw,
                                 !.step = "comments"]
    /\ UNCHANGED <<pc, ret>>
    /\ UNCHANGED FbRest

\* Lines 358-362.
FB_Comments ==
    /\ InStep("comments")
    /\ \E o \in Outcomes(OptCounts) :
         LET c == safe_call(o)
             try == IsNone(fb.comments)
         IN  /\ o.threw => try
             /\ fb' = [fb EXCEPT !.comments = IF try /\ IsSome(c) THEN c ELSE @,
                                 !.threw = o.threw,
                                 !.step = "shares"]
    /\ UNCHANGED <<pc, ret>>
    /\ UNCHANGED FbRest

\* Lines 364-368.
FB_Shares ==
    /\ InStep("shares")
    /\ \E o \in Outcomes(OptCounts) :
         LET sh == safe_call(o)
             try == IsNone(fb.shares)
         IN  /\ o.threw => try
             /\ fb' = [fb EXCEPT !.shares = IF try /\ IsSome(sh) THEN sh ELSE @,
                                 !.threw = o.threw,
                                 !.step = "type"]
    /\ UNCHANGED <<pc, ret>>
    /\ UNCHANGED FbRest

\* Lines 370-380: post type, then the early exit or the next variant.
FB_PostTypeAndCheck ==
    /\ InStep("type")
    /\ \E o \in Outcomes(TypeFound) :
         LET pt == safe_call(o)
             try == ~TruthyStr(fb.post_type)
             f1 == [fb EXCEPT !.post_type = IF try /\ TruthyStr(pt) THEN pt ELSE @,
                              !.threw = o.threw]
         IN  /\ o.threw => try
             /\ IF Sufficient(f1) \/ f1.i = Len(f1.variants)
                THEN /\ fb' = [f1 EXCEPT !.step = "og"]
                     /\ pc' = "fb_og"
                ELSE /\ fb' = [f1 EXCEPT !.i = @ + 1, !.step = "parse"]
                     /\ UNCHANGED pc
    /\ UNCHANGED ret
    /\ UNCHANGED FbRest

\* _parse_og_title_metrics: None, or (views, reactions, title, owner).
OgMetrics ==
    {None} \cup { Some([views |-> v, reactions |-> r, title |-> t, owner |-> w]) :
                    v \in OptCounts, r \in OptCounts, t \in TitleFound,
                    w \in {None, Some("bob")} }

\* Lines 383-400: the og:title step on the first document.
og_title_merge(f, og) ==
    IF IsNone(og) THEN f
    ELSE LET m == Val(og)
         IN  [ f EXCEPT
                 !.views = IF IsSome(m.views) /\ (IsNone(f.views) \/ Val(m.views) > Val(f.views))
                           THEN m.views ELSE @,
                 !.likes = IF IsSome(m.reactions) /\ (IsNone(f.likes) \/ Val(m.reactions) > Val(f.likes))
                           THEN m.reactions ELSE @,
                 !.post_title = IF IsNone(f.post_title) /\ TruthyStr(m.title) THEN m.title ELSE @,
                 !.author = IF (~TruthyStr(f.author) \/ f.author = Some("Unknown User"))
                               /\ TruthyStr(m.owner)
                            THEN m.owner ELSE @ ]

\* FacebookExtractor._extract_hashtags: the text "y" carries the tag "#a".
fb_extract_hashtags(content) == IF content = Some("y") THEN Some("#a") ELSE None

\* Lines 402-454: fallbacks, identifiers, engagement rate, output dicts.
\* Neither dict carries an extraction_status.
fb_build(f) ==
    LET author == IF TruthyStr(f.author) THEN f.author ELSE Some("Unknown User")
        post_type == IF TruthyStr(f.post_type) THEN f.post_type ELSE Some("post")
        op_id == facebook_generate_op_id(Val(author))
    IN  [ post |-> [ BlankPost EXCEPT
                       !.Post_ID = Some(facebook_generate_post_id("url")),
                       !.Post_title = f.post_title,
                       !.Post_caption = IF TruthyStr(f.content) THEN f.content ELSE None,
                       !.Post_hashtags = fb_extract_hashtags(f.content),
                       !.Post_type = post_type,
                       !.Post_date = f.post_date,
                       !.Post_views = f.views,
                       !.Post_likes = f.likes,
                       !.Post_shares = f.shares,
                       !.Post_comments = f.comments,
                       !.Post_engagement_rate =
                           CalculateEngagementRate(f.views, f.likes, f.comments, f.shares),
                       !.Post_language = Some("unknown"),
                       !.OP_username = author,
                       !.OP_ID = Some(op_id) ],
          op |-> [ BlankOp EXCEPT
                       !.OP_username = author,
                       !.OP_ID = Some(op_id),
                       !.OP_platform = Some("facebook") ] ]

\* Lines 382-400; _parse_og_title_metrics is not wrapped by _safe_call.
FB_OgTitle ==
    /\ pc = "fb_og" /\ platform = "facebook"
    /\ \/ /\ \E og \in OgMetrics : fb' = [og_title_merge(fb, og) EXCEPT !.step = "build", !.threw = FALSE]
          /\ pc' = "fb_build"
          /\ UNCHANGED ret
       \/ /\ fb' = [fb EXCEPT !.threw = TRUE]
          /\ ret' = Raise("cannot convert float infinity to integer")
          /\ pc' = "returned"
    /\ UNCHANGED FbRest

\* Lines 402-472.
FB_BuildAndReturn ==
    /\ pc = "fb_build" /\ platform = "facebook"
    /\ LET rec == fb_build(fb) IN ret' = Pair(rec.post, rec.op)
    /\ pc' = "returned"
    /\ UNCHANGED fb
    /\ UNCHANGED FbRest

\* ------------------------------------------------- the pipeline boundary
\* A stand-in extractor may hand back anything: a pair, a bare dict, None,
\* a string, or an exception.
NonPair(type, d) == [kind |-> "nonpair", post |-> d, op |-> BlankOp, msg |-> type]
WithStatus(st) == [BlankPost EXCEPT !.extraction_status = st,
                                    !.error_message = IF st = "failed" THEN Some("no data") ELSE None]
DoubleResults ==
    { Raise(m) : m \in LibraryExcMsgs }
      \cup { Pair(WithStatus(st), BlankOp) : st \in {"absent", "success", "partial", "failed"} }
      \cup { NonPair("dict", WithStatus(st)) : st \in {"absent", "success", "partial", "failed"} }
      \cup { NonPair("NoneType", BlankPost), NonPair("str", BlankPost) }

Double_Extract ==
    /\ pc = "pending" /\ platform \in Platforms /\ extractor = "double"
    /\ ret' \in DoubleResults
    /\ pc' = "returned"
    /\ UNCHANGED <<call, stderr_vars, app_vars, platform, extractor, url, log, tt, news, fb, metadata>>

\* The dict app.extract_metadata returns; _op_data is the OP dict it stores
\* under the key '_op_data' (None when it stores none).
Meta(d, op) == [kind |-> "dict", dict |-> d, op_data |-> op]
NoMeta == [kind |-> "none", dict |-> BlankPost, op_data |-> None]

\* Variant of the boundary that returns the extractor's post dict as it is,
\* without the default status.
AppExtractMetadataNoDefault(pf, r) ==
    IF pf \notin Platforms
    THEN Meta(ErrorData("local variable 'result' referenced before assignment"), None)
    ELSE IF r.kind = "raise" THEN Meta(ErrorData(r.msg), None)
    ELSE IF r.kind = "pair" THEN Meta(r.post, Some(r.op))
    ELSE IF r.msg = "dict" THEN Meta(r.post, None)
    ELSE Meta(ErrorData("not a dict"), None)

\* app.extract_metadata(url, platform), given what extractor.extract() did.
\* An unsupported platform reads the unbound local `result`, which raises
\* inside the try block.
AppExtractMetadata(pf, r) ==
    IF pf \notin Platforms
    THEN Meta(ErrorData("local variable 'result' referenced before assignment"), None)
    ELSE IF r.kind = "raise" THEN Meta(ErrorData(r.msg), None)
    ELSE IF r.kind = "pair"
    THEN Meta(IF r.post.extraction_status = "absent"
              THEN [r.post EXCEPT !.extraction_status = "success"] ELSE r.post,
              Some(r.op))
    ELSE IF r.msg = "dict"
    THEN Meta(IF r.post.extraction_status = "absent"
              THEN [r.post EXCEPT !.extraction_status = "success"] ELSE r.post,
              None)
    ELSE IF pf = "tiktok"
    THEN Meta(ErrorData(IF r.msg = "NoneType"
                        THEN "'NoneType' object has no attribute 'get'"
                        ELSE "'str' object has no attribute 'get'"), None)
    ELSE IF r.msg = "NoneType"
    THEN Meta(ErrorData("argument of type 'NoneType' is not iterable"), None)
    ELSE Meta(ErrorData("'str' object does not support item assignment"), None)

App_ExtractMetadata ==
    /\ \/ pc = "returned"
       \/ pc = "pending" /\ platform \notin Platforms
    /\ metadata' = AppExtractMetadata(platform, ret)
    /\ pc' = "done"
    /\ UNCHANGED <<call, stderr_vars, app_vars, platform, extractor, url, log, ret, tt, news, fb>>

\* ----------------------------------------- the app: session and CSV export
\* Keys of the dicts by prefix.  A record of the model carries every key; a
\* key the dict lacks and a key holding None give the same cell.
PostPrefixed ==
    {"Post_ID", "Post_caption", "Post_title", "Post_hashtags", "Post_type", "Post_date",
     "Post_views", "Post_likes", "Post_shares", "Post_comments", "Post_saves",
     "Post_reposts", "Post_engagement_rate", "Post_language"}
OpPrefixed == DOMAIN BlankOp
StatusKeys == {"extraction_status", "error_message"}
StartsWith(key, prefix) ==
    IF prefix = "Post_" THEN key \in PostPrefixed ELSE key \in OpPrefixed

\* key[5:] of a 'Post_' key and key[3:] of an 'OP_' key.
Unprefixed ==
    [ Post_ID |-> "ID", Post_caption |-> "caption", Post_title |-> "title",
      Post_hashtags |-> "hashtags", Post_type |-> "type", Post_date |-> "date",
      Post_views |-> "views", Post_likes |-> "likes", Post_shares |-> "shares",
      Post_comments |-> "comments", Post_saves |-> "saves", Post_reposts |-> "reposts",
      Post_engagement_rate |-> "engagement_rate", Post_language |-> "language",
      OP_username |-> "username", OP_ID |-> "ID", OP_bio |-> "bio",
      OP_followers |-> "followers", OP_following |-> "following", OP_post |-> "post",
      OP_platform |-> "platform" ]

\* csv_generator._format_list on a list value: "[]" is the empty list,
\* which joins to the empty string; other values are kept.
format_list(value) == IF value = Some("[]") THEN Some("") ELSE value

\* The row built from the keys of d that start with the prefix, the prefix
\* removed, and from the status keys, kept as they are.  Every cell is an
\* optional value; the status, a plain string in the record, is wrapped.
\* Post_hashtags is the only key of the record whose value is a list.
CsvRow(d, prefix) ==
    LET kept == {k \in DOMAIN d : StartsWith(k, prefix) \/ k \in StatusKeys}
        column(k) == IF StartsWith(k, prefix) THEN Unprefixed[k] ELSE k
        cell(k) == IF k = "extraction_status" THEN Some(d[k])
                   ELSE IF k = "Post_hashtags" THEN format_list(d[k])
                   ELSE d[k]
    IN  [ c \in {column(k) : k \in kept} |-> cell(CHOOSE k \in kept : column(k) = c) ]

\* csv_generator.post_data_to_csv_row and op_data_to_csv_row.
post_data_to_csv_row(post_data) == CsvRow(post_data, "Post_")
op_data_to_csv_row(op_data) == CsvRow(op_data, "OP_")

\* csv_generator.generate_csv on a one-element list: the format is chosen
\* by the keys of the dict.
generate_csv(d) ==
    IF \E k \in DOMAIN d : StartsWith(k, "Post_") THEN post_data_to_csv_row(d)
    ELSE op_data_to_csv_row(d)

Restrict(f, S) == [k \in S |-> f[k]]
\* dict.update
Update(a, b) == [k \in DOMAIN a \cup DOMAIN b |-> IF k \in DOMAIN b THEN b[k] ELSE a[k]]

\* app.display_results, lines 804-842: metadata is split by key prefix, the
\* stored OP dict is laid over the OP_ keys, and one CSV row is generated
\* from each part.
display_results(md) ==
    LET post_data == Restrict(md.dict, {k \in DOMAIN md.dict : ~StartsWith(k, "OP_")})
        op_keys == Restrict(md.dict, {k \in DOMAIN md.dict : StartsWith(k, "OP_")})
        op_data == IF IsSome(md.op_data) THEN Update(op_keys, Val(md.op_data)) ELSE op_keys
    IN  [post |-> generate_csv(post_data), op |-> generate_csv(op_data)]

\* What the URL box holds when main() runs: nothing, a text that
\* validate_and_parse rejects, a URL of an unsupported platform, or a URL of
\* a supported one.
UrlInputs == {"empty", "invalid", "unsupported", "supported"}
NoSession == [last_metadata |-> None]

\* Variant of the click handler that leaves the previous result in place.
KeepPrevious(ss) == ss

\* app.main, line 464: st.session_state.last_metadata = None.
ClearPrevious(ss) == [ss EXCEPT !.last_metadata = None]

\* app.process_url(url): md is what extract_metadata() returns for a
\* supported URL.
process_url(ss, url_input, md) ==
    IF url_input \in {"invalid", "unsupported"} THEN ss
    ELSE IF md.dict.extraction_status \in {"success", "partial"}
    THEN [ss EXCEPT !.last_metadata = Some(md)]
    ELSE [ss EXCEPT !.last_metadata = None]

\* app.main, lines 462-471: the session state after one run of the script.
main(ss, extract_button, url_input, md) ==
    IF extract_button /\ url_input # "empty"
    THEN process_url(ClearPrevious(ss), url_input, md)
    ELSE ss

\* One run of the script: the session before it, its inputs, the dict
\* extract_metadata returned in it, and the rows display_results built.
NoRerun ==
    [extract_button |-> FALSE, url_input |-> "empty", before |-> None,
     metadata |-> NoMeta, displayed |-> None]
RerunOf(ss, extract_button, url_input, md) ==
    LET after == main(ss, extract_button, url_input, md)
    IN  [ extract_button |-> extract_button, url_input |-> url_input,
          before |-> ss.last_metadata,
          metadata |-> IF extract_button /\ url_input = "supported" THEN md ELSE NoMeta,
          displayed |-> IF IsSome(after.last_metadata)
                        THEN Some(display_results(Val(after.last_metadata)))
                        ELSE None ]

\* The rest of the script run after extract_metadata() has returned:
\* process_url stores the result, main displays what is stored.
App_StoreAndDisplay ==
    /\ pc = "done" /\ platform \in Platforms
    /\ session_state' = main(session_state, TRUE, "supported", metadata)
    /\ rerun' = RerunOf(session_state, TRUE, "supported", metadata)
    /\ pc' = "shown"
    /\ UNCHANGED <<call, stderr_vars, platform, extractor, url, log, ret, tt, news, fb,
                   metadata>>

\* What extract() hands to extract_metadata() in a session: the results of
\* a stand-in, and results of the repository's extractors (the TikTok
\* fallback record, a Facebook record without any field, the News
\* placeholder record, the Facebook cookie-wall exception).
SessionResults ==
    DoubleResults
      \cup { DualToPair(fallback_minimal(try_oembed(ok), PlainUrl(TRUE), r, r)) :
                ok \in BOOLEAN, r \in RandIds }
      \cup { Pair(fb_build(FbInit).post, fb_build(FbInit).op),
             Pair(create_empty_article_with_js_flag(1, 1, 1).post,
                  create_empty_article_with_js_flag(1, 1, 1).op),
             FailedPair(InvalidUrlMsg), Raise(CookieWallMsg) }

\* The dicts extract_metadata() can return to process_url.
AppResults == { AppExtractMetadata(pf, r) : pf \in Platforms, r \in SessionResults }

\* A click on the extract button: one whole run of the script.
App_ExtractClick ==
    /\ pc = "app"
    /\ \E url_input \in UrlInputs, md \in AppResults :
          /\ session_state' = main(session_state, TRUE, url_input, md)
          /\ rerun' = RerunOf(session_state, TRUE, url_input, md)
    /\ UNCHANGED <<stderr_vars, run_vars>>

\* A run of the script caused by any other widget.
App_PlainRerun ==
    /\ pc = "app"
    /\ \E url_input \in UrlInputs :
          /\ session_state' = main(session_state, FALSE, url_input, NoMeta)
          /\ rerun' = RerunOf(session_state, FALSE, url_input, NoMeta)
    /\ UNCHANGED <<stderr_vars, run_vars>>

\* ------------------------------------------- Facebook targeted extraction
\* Bounds of the documents handed to the targeted extractors.
MaxDocLen == 4

\* Character counts: the search window (lines 539 and 555), a metric block
\* such as "feedback":{"likers":{"count":1}}, and the quoted 3-digit
\* identifier of another item.
WindowChars == 10000
BlockChars == 33
OtherIdChars == 5

\* A target identifier as _extract_target_id_from_url returns it: the facts
\* the extractors test (startswith('pfbid'), isdigit(), len()).
TargetId(s, digits, pfbid, len) == [s |-> s, isdigit |-> digits, pfbid |-> pfbid, len |-> len]
TargetIds ==
    { None,
      Some(TargetId("456", TRUE, FALSE, 3)),
      Some(TargetId("pfbid028XrH", FALSE, TRUE, 11)),
      Some(TargetId("1aHwNcSFZK", FALSE, FALSE, 10)),
      Some(TargetId("1aHwNcSFZK1aHwNcSFZK", FALSE, FALSE, 20)) }

\* A document is a sequence of pieces: "T" the quoted target identifier,
\* "O" the quoted identifier of another item, "m" a metric block of the
\* first pattern of the metric asked for, with its count, "pad" other text
\* of v characters.
Tok(k, v) == [k |-> k, v |-> v]
PadSizes == {WindowChars - BlockChars - OtherIdChars, WindowChars}
Pieces ==
    {Tok("T", 0), Tok("O", 0)} \cup {Tok("m", n) : n \in Counts}
        \cup {Tok("pad", n) : n \in PadSizes}
RECURSIVE SeqsUpTo(_, _)
SeqsUpTo(S, n) ==
    IF n = 0 THEN {<<>>}
    ELSE LET shorter == SeqsUpTo(S, n - 1)
         IN  shorter \cup {Append(d, x) : d \in {e \in shorter : Len(e) = n - 1}, x \in S}
Documents == SeqsUpTo(Pieces, MaxDocLen)

PieceChars(t, target_id) ==
    CASE t.k = "T" -> 2 + (IF IsSome(target_id) THEN Val(target_id).len ELSE 3)
      [] t.k = "O" -> OtherIdChars
      [] t.k = "m" -> BlockChars
      [] OTHER -> t.v

\* Offset of piece i in the text, and the offset just after it.
RECURSIVE StartOf(_, _, _)
StartOf(html, i, target_id) ==
    IF i = 1 THEN 0
    ELSE StartOf(html, i - 1, target_id) + PieceChars(html[i - 1], target_id)
EndOf(html, i, target_id) == StartOf(html, i, target_id) + PieceChars(html[i], target_id)
TextChars(html, target_id) ==
    IF html = <<>> THEN 0 ELSE EndOf(html, Len(html), target_id)

\* re.search(pattern, html[lo:hi]): the first block lying inside [lo, hi),
\* as an index into the document, 0 when there is none.
SearchSlice(html, lo, hi, target_id) ==
    LET inside == { j \in 1..Len(html) :
                      /\ html[j].k = "m"
                      /\ StartOf(html, j, target_id) >= lo
                      /\ EndOf(html, j, target_id) <= hi }
    IN  IF inside = {} THEN 0 ELSE CHOOSE j \in inside : \A k \in inside : j <= k

\* re.finditer(rf'"{target_id}"', html): the occurrences, in document order.
TargetPositions(html) ==
    SelectSeq([i \in 1..Len(html) |-> i], LAMBDA i : html[i].k = "T")

\* Variant of the loop that looks behind each occurrence before it looks
\* ahead.
RECURSIVE SearchOccurrencesBackwardFirst(_, _, _, _)
SearchOccurrencesBackwardFirst(html, target_positions, n, target_id) ==
    IF n > Len(target_positions) THEN 0
    ELSE LET pos == StartOf(html, target_positions[n], target_id)
             fwd == SearchSlice(html, pos, Min2(TextChars(html, target_id), pos + WindowChars), target_id)
             bwd == SearchSlice(html, Max2(0, pos - WindowChars), pos, target_id)
         IN  IF bwd # 0 THEN bwd
             ELSE IF fwd # 0 THEN fwd
             ELSE SearchOccurrencesBackwardFirst(html, target_positions, n + 1, target_id)

\* The loop over target_positions (lines 536-570): forward window first,
\* then the backward window, then the next occurrence.
RECURSIVE SearchOccurrences(_, _, _, _)
SearchOccurrences(html, target_positions, n, target_id) ==
    IF n > Len(target_positions) THEN 0
    ELSE LET pos == StartOf(html, target_positions[n], target_id)
             fwd == SearchSlice(html, pos, Min2(TextChars(html, target_id), pos + WindowChars), target_id)
             bwd == SearchSlice(html, Max2(0, pos - WindowChars), pos, target_id)
         IN  IF fwd # 0 THEN fwd
             ELSE IF bwd # 0 THEN bwd
             ELSE SearchOccurrences(html, target_positions, n + 1, target_id)

\* _extract_likes_old and its siblings: the first block of the document.
Found(value, windowed, untargeted) ==
    [value |-> value, windowed |-> windowed, untargeted |-> untargeted]
extract_old(html, target_id) ==
    LET j == SearchSlice(html, 0, TextChars(html, target_id), target_id)
    IN  IF j = 0 THEN None ELSE Some(html[j].v)

\* _extract_likes_targeted, _extract_comments_targeted and
\* _extract_shares_targeted share this structure.  The result records the
\* value, whether the windowed search ran, and whether the whole-document
\* search was used.
extract_targeted(html, target_id) ==
    IF IsNone(target_id) \/ Val(target_id).len = 0
    THEN Found(extract_old(html, target_id), FALSE, TRUE)
    ELSE IF Val(target_id).pfbid \/ (~Val(target_id).isdigit /\ Val(target_id).len <= 15)
    THEN Found(extract_old(html, target_id), FALSE, TRUE)
    ELSE LET j == SearchOccurrences(html, TargetPositions(html), 1, target_id)
         IN  IF j # 0 THEN Found(Some(html[j].v), TRUE, FALSE)
             ELSE Found(extract_old(html, target_id), TRUE, TRUE)

Metrics == {"likes", "comments", "shares"}

\* ------------------------------------------------- helper methods alone
NoCall == [fn |-> "none", state |-> "none"]
TargetedCall(metric, html, target_id) ==
    [fn |-> "extract_targeted", state |-> "called", metric |-> metric,
     html |-> html, target_id |-> target_id]
Returned(c, out) == [c EXCEPT !.state = "returned"] @@ [out |-> out]

\* Metric values handed to the engagement-rate function.
EngagementValues == OptCounts \cup {Some(5), Some(10), Some(23)}
ViewValues == OptCounts \cup {Some(100), Some(160)}
EngagementInputs ==
    [views : ViewValues, likes : EngagementValues,
     comments : EngagementValues, shares : EngagementValues]
EngagementCall(md) ==
    [fn |-> "calculate_engagement_rate_from_dict", state |-> "called", metadata |-> md]

Call_CalculateEngagementRate ==
    /\ call.fn = "calculate_engagement_rate_from_dict" /\ call.state = "called"
    /\ call' = Returned(call, calculate_engagement_rate_from_dict(call.metadata))
    /\ UNCHANGED <<stderr_vars, app_vars, platform, extractor, url, pc, log, ret, tt, news, fb, metadata>>

\* YouTubeExtractor.extract_metadata on a video item of the API, with the
\* subscriber count of its channel.
YouTubeCall(video, subscribers) ==
    [fn |-> "youtube_extract_metadata", state |-> "called", video |-> video,
     subscribers |-> subscribers]

Call_YouTubeExtractMetadata ==
    /\ call.fn = "youtube_extract_metadata" /\ call.state = "called"
    /\ \E r1 \in RandIds, r2 \in RandIds :
          call' = Returned(call, youtube_build(call.video, call.subscribers, r1, r2))
    /\ UNCHANGED <<stderr_vars, app_vars, platform, extractor, url, pc, log, ret, tt, news, fb, metadata>>

Call_ExtractTargeted ==
    /\ call.fn = "extract_targeted" /\ call.state = "called"
    /\ call' = Returned(call, extract_targeted(call.html, call.target_id))
    /\ UNCHANGED <<stderr_vars, app_vars, platform, extractor, url, pc, log, ret, tt, news, fb, metadata>>

\* BaseExtractor.generate_post_id(seed) / generate_op_id(seed) called as
\* static methods; seed None stands for the call without an argument.
SeedValues == {None, Some(""), Some("alice"), Some("Editorial Team")}
GenerateIdCall(fn, seed) == [fn |-> fn, state |-> "called", seed |-> seed]

Call_GenerateId ==
    /\ call.fn \in {"generate_post_id", "generate_op_id"} /\ call.state = "called"
    /\ \E r \in RandIds :
          call' = Returned(call, IF call.fn = "generate_post_id"
                                 THEN generate_post_id(call.seed, r)
                                 ELSE generate_op_id(call.seed, r))
    /\ UNCHANGED <<stderr_vars, app_vars, platform, extractor, url, pc, log, ret, tt, news, fb, metadata>>

\* detect_language / _detect_language called on their own.
Texts ==
    { Str(r) : r \in SeqsUpTo({Run(c, n) : c \in CharClasses, n \in RunLengths}, MaxRuns) }
        \cup { NonStr(t, b) : t \in {"int", "list", "bytes"}, b \in BOOLEAN }
        \cup { NonStr("NoneType", FALSE) }
DetectLanguageCall(fn, text) == [fn |-> fn, state |-> "called", text |-> text]

Call_DetectLanguage ==
    /\ call.fn \in {"detect_language", "_detect_language"} /\ call.state = "called"
    /\ call' = Returned(call, IF call.fn = "detect_language"
                              THEN base_detect_language(call.text)
                              ELSE tiktok_detect_language(call.text))
    /\ UNCHANGED <<stderr_vars, app_vars, platform, extractor, url, pc, log, ret, tt, news, fb, metadata>>

\* ------------------------------------- concurrent News runs and sys.stderr
\* NewsExtractor._extract_with_newspaper3k, STEP 3 (lines 1219-1236), run by
\* several threads of one process.  sys.stderr is a module attribute shared
\* by all threads; old_stderr is a local of each run.
NThreads == 3
Threads == 1..NThreads
OrigStderr == <<"stderr", 0>>
StringIO(t) == <<"StringIO", t>>
ThreadAt(position, old) == [pc |-> position, old_stderr |-> old]
NoThreads == [t \in Threads |-> ThreadAt("idle", None)]

\* old_stderr = sys.stderr
Nlp_SaveStderr(t) ==
    /\ threads[t].pc = "start"
    /\ threads' = [threads EXCEPT ![t] = ThreadAt("saved", Some(sys_stderr))]
    /\ UNCHANGED <<sys_stderr, app_vars, run_vars>>

\* sys.stderr = io.StringIO()
Nlp_RedirectStderr(t) ==
    /\ threads[t].pc = "saved"
    /\ sys_stderr' = StringIO(t)
    /\ threads' = [threads EXCEPT ![t].pc = "redirected"]
    /\ UNCHANGED <<app_vars, run_vars>>

\* article.nlp() inside warnings.catch_warnings(): it returns or it raises.
Nlp_Run(t) ==
    /\ threads[t].pc = "redirected"
    /\ \E outcome \in {"ran", "raised"} :
          threads' = [threads EXCEPT ![t].pc = outcome]
    /\ UNCHANGED <<sys_stderr, app_vars, run_vars>>

\* sys.stderr = old_stderr, on line 1232 or in the except clause.
Nlp_RestoreStderr(t) ==
    /\ threads[t].pc \in {"ran", "raised"}
    /\ sys_stderr' = Val(threads[t].old_stderr)
    /\ threads' = [threads EXCEPT ![t].pc = "done"]
    /\ UNCHANGED <<app_vars, run_vars>>

\* ---------------------------------------------------------- specification
UrlsOf(pf) ==
    CASE pf = "news" -> {u \in Urls : ~u.user /\ ~u.www}
      [] pf = "tiktok" -> {u \in Urls : u.site = "plain" /\ ~u.www}
      [] pf = "facebook" -> {u \in Urls : u.site = "plain" /\ ~u.user}
      [] OTHER -> {PlainUrl(v) : v \in BOOLEAN}

Init ==
    /\ platform \in Platforms \cup {"unknown"}
    /\ extractor \in {"real", "double"}
    /\ platform \notin Platforms => extractor = "real"
    /\ url \in UrlsOf(platform)
    /\ extractor = "double" => url = PlainUrl(TRUE)
    /\ pc = "pending"
    /\ log = <<>>
    /\ ret = NoResult
    /\ tt = TtInit
    /\ news = None
    /\ fb = FbInit
    /\ metadata = NoMeta
    /\ call = NoCall
    /\ sys_stderr = OrigStderr
    /\ threads = NoThreads
    /\ session_state = NoSession
    /\ rerun = NoRerun

Next ==
    \/ Base_Validate
    \/ Reddit_ExtractMetadata
    \/ TikTok_Validate
    \/ TikTok_ExtractPostData
    \/ TikTok_ExtractProfileData
    \/ TikTok_FallbackMinimal
    \/ YouTube_Validate
    \/ YouTube_ExtractMetadata
    \/ News_Start
    \/ News_Newspaper3k
    \/ News_RequestsHtmlFallback
    \/ News_EnhanceAndReturn
    \/ FB_Start
    \/ FB_FetchVariants
    \/ FB_ParseVariant
    \/ FB_Author
    \/ FB_Content
    \/ FB_Date
    \/ FB_Likes
    \/ FB_Comments
    \/ FB_Shares
    \/ FB_PostTypeAndCheck
    \/ FB_OgTitle
    \/ FB_BuildAndReturn
    \/ Double_Extract
    \/ App_ExtractMetadata
    \/ App_StoreAndDisplay

Spec == Init /\ [][Next]_vars

\* Every call blocks until it returns or times out, and the run is the only
\* thread: a step that can be taken is taken.
FairSpec == Spec /\ WF_vars(Next)

\* Helper methods called on their own, on arguments drawn from bounded sets.
HelperInit ==
    /\ platform = "facebook" /\ extractor = "real" /\ url = PlainUrl(TRUE)
    /\ pc = "helper" /\ log = <<>> /\ ret = NoResult
    /\ tt = TtInit
    /\ news = None /\ fb = FbInit /\ metadata = NoMeta
    /\ sys_stderr = OrigStderr /\ threads = NoThreads
    /\ session_state = NoSession /\ rerun = NoRerun
    /\ call \in { TargetedCall(m, d, t) : m \in Metrics, d \in Documents, t \in TargetIds }
                \cup { EngagementCall(md) : md \in EngagementInputs }
                \cup { YouTubeCall(v, n) : v \in YouTubeVideo, n \in {None, Some(MaxCount)} }
                \cup { GenerateIdCall(f, sd) : f \in {"generate_post_id", "generate_op_id"},
                                                sd \in SeedValues }
                \cup { DetectLanguageCall(f, t) : f \in {"detect_language", "_detect_language"},
                                                   t \in Texts }

HelperNext ==
    \/ Call_ExtractTargeted
    \/ Call_CalculateEngagementRate
    \/ Call_YouTubeExtractMetadata
    \/ Call_GenerateId
    \/ Call_DetectLanguage

HelperSpec == HelperInit /\ [][HelperNext]_vars

\* Several News runs reach STEP 3 in different threads of one process.
ConcurrentInit ==
    /\ platform = "news" /\ extractor = "real" /\ url = PlainUrl(TRUE)
    /\ pc = "concurrent" /\ log = <<>> /\ ret = NoResult
    /\ tt = TtInit /\ news = None /\ fb = FbInit /\ metadata = NoMeta
    /\ call = NoCall
    /\ sys_stderr = OrigStderr
    /\ threads = [t \in Threads |-> ThreadAt("start", None)]
    /\ session_state = NoSession /\ rerun = NoRerun

ConcurrentNext ==
    \/ \E t \in Threads : Nlp_SaveStderr(t)
    \/ \E t \in Threads : Nlp_RedirectStderr(t)
    \/ \E t \in Threads : Nlp_Run(t)
    \/ \E t \in Threads : Nlp_RestoreStderr(t)

ConcurrentSpec == ConcurrentInit /\ [][ConcurrentNext]_vars

\* A user session of the app: any sequence of runs of the script.
AppInit ==
    /\ platform = "unknown" /\ extractor = "real" /\ url = PlainUrl(TRUE)
    /\ pc = "app" /\ log = <<>> /\ ret = NoResult
    /\ tt = TtInit /\ news = None /\ fb = FbInit /\ metadata = NoMeta
    /\ call = NoCall
    /\ sys_stderr = OrigStderr /\ threads = NoThreads
    /\ session_state = NoSession /\ rerun = NoRerun

AppNext ==
    \/ App_ExtractClick
    \/ App_PlainRerun

AppSpec == AppInit /\ [][AppNext]_vars

TypeOK ==
    /\ pc \in {"pending", "fetching", "tt_profile", "tt_fallback", "news_step1",
               "news_step3", "news_step4", "fb_fetch", "fb_cascade", "fb_og",
               "fb_build", "returned", "done", "shown"}
    /\ ret.kind \in {"none", "pair", "raise", "nonpair"}

\* ================================================================= claims
\* A run of one of the repository's extractors has ended.
RunEnded == Real /\ platform \in Platforms /\ pc \in {"returned", "done", "shown"}
ReturnedPair == RunEnded /\ ret.kind = "pair"
Failed(post) == post.extraction_status = "failed"

\* C1: for every extractor and every URL, extract() returns a (post, op)
\* pair and never propagates an exception to its caller.
C1_ExtractNeverRaises == RunEnded => ret.kind = "pair"

\* C2: when validate_url() is false the run ends at once in a returned pair
\* whose post is 'failed' with a non-empty error_message and whose OP record
\* is empty, and the run makes no delay, network request or subprocess call.
C2_InvalidUrlFailsAtOnce ==
    (Real /\ platform \in Platforms /\ ~url.valid) =>
        /\ log = <<>>
        /\ pc \in {"pending", "returned", "done"}
        /\ pc # "pending" =>
              /\ ret.kind = "pair"
              /\ Failed(ret.post)
              /\ TruthyStr(ret.post.error_message)
              /\ ret.op = BlankOp

\* The run got no document (TikTok: the post step failed and oEmbed failed
\* too), or it got documents in which no author, caption, date or metric
\* extractor matched anything (Facebook).
NothingObtained ==
    \/ /\ platform = "tiktok"
       /\ IsNone(tt.post_data_raw)
       /\ tt.basic_data = Some(try_oembed(FALSE))
    \/ /\ platform = "facebook"
       /\ fb.parsed # <<>>
       /\ IsNone(fb.author) /\ IsNone(fb.content) /\ IsNone(fb.post_date)
       /\ IsNone(fb.likes) /\ IsNone(fb.comments) /\ IsNone(fb.shares)
       /\ IsNone(fb.views)

\* C3: a run that obtains no document, or documents from which no strategy
\* produces a usable field, returns extraction_status 'failed' with a
\* non-empty error_message, never 'success'.
C3_TotalFailureIsFailed ==
    (ReturnedPair /\ NothingObtained) =>
        (Failed(ret.post) /\ TruthyStr(ret.post.error_message))

C5_ForeignKey ==
    /\ (ReturnedPair /\ ~Failed(ret.post)) =>
          /\ ret.post.OP_ID = ret.op.OP_ID
          /\ ret.post.OP_username = ret.op.OP_username
          /\ IsSome(ret.op.OP_ID)
    /\ IsSome(news) =>
          /\ Val(news).post.OP_ID = Val(news).op.OP_ID
          /\ Val(news).post.OP_username = Val(news).op.OP_username

\* The JS-flag placeholder record (the only one with an empty title) was
\* returned after the enhancement step.
C5_Witness ==
    /\ ReturnedPair /\ platform = "news" /\ url.site = "substack"
    /\ ret.post.Post_title = Some("")
    /\ IsSome(ret.op.OP_bio)

ContentFieldsNull(post) ==
    /\ IsNone(post.Post_caption) /\ IsNone(post.Post_title)
    /\ IsNone(post.Post_hashtags) /\ IsNone(post.Post_views)
    /\ IsNone(post.Post_likes) /\ IsNone(post.Post_shares)
    /\ IsNone(post.Post_comments) /\ IsNone(post.Post_saves)
    /\ IsNone(post.Post_reposts) /\ IsNone(post.Post_engagement_rate)

\* C6: in every returned pair, extraction_status 'failed' implies that every
\* engagement and content field is null or absent and that error_message is
\* a non-empty string, also when the caught exception has an empty message.
C6_FailedIsEmptyWithMessage ==
    (ReturnedPair /\ Failed(ret.post)) =>
        (ContentFieldsNull(ret.post) /\ TruthyStr(ret.post.error_message))

KeyFieldsMissing(post) ==
    \/ ~TruthyStr(post.Post_caption)
    \/ /\ IsNone(post.Post_views) /\ IsNone(post.Post_likes)
       /\ IsNone(post.Post_comments) /\ IsNone(post.Post_shares)

\* C7: a returned record whose key fields remain null (no caption, or none
\* of views/likes/comments/shares) has extraction_status 'partial'.
C7_MissingKeyFieldsIsPartial ==
    (ReturnedPair /\ ~Failed(ret.post) /\ KeyFieldsMissing(ret.post)) =>
        ret.post.extraction_status = "partial"

FbFields == {"author", "content", "post_date", "likes", "comments", "shares",
             "views", "post_type", "post_title"}

\* C8: first-writer-wins in the Facebook cascade: a field that has a
\* non-null value is never changed by a later variant, strategy or the
\* og:title step.
C8_FirstWriterWins ==
    [][ \A k \in FbFields : IsSome(fb[k]) => fb'[k] = fb[k] ]_vars

\* The default sufficiency predicate of the specification.
DefaultSufficient(f) ==
    TruthyStr(f.content) /\ (IsSome(f.views) \/ IsSome(f.likes) \/ IsSome(f.comments))

\* C9: after each processed variant with variants remaining, the cascade
\* stops exactly when caption is present and one of views/likes/comments is
\* non-null; otherwise the next variant is processed.
C9_StopsExactlyWhenSufficient ==
    [][ (pc = "fb_cascade" /\ fb.step = "type" /\ fb.i < Len(fb.variants)) =>
            ((pc' = "fb_og") <=> DefaultSufficient(fb')) ]_vars

\* C10: an exception raised inside a single parsing step of the Facebook
\* cascade is no contribution: the accumulated fields are unchanged, the
\* run goes on, and it does not end because of it.
C10_StepFailureIsNoContribution ==
    [][ (platform = "facebook" /\ fb'.threw /\ fb' # fb) =>
            /\ \A k \in FbFields : fb'[k] = fb[k]
            /\ pc' # "returned"
            /\ ret' = ret ]_vars

FbVariantLabels == <<"desktop", "mobile", "mbasic">>
FetchFailureMsgs == {CookieWallMsg, NoVariantsMsg}

\* C11: a Facebook run ends for fetch reasons only when every variant fetch
\* failed; when some variant among desktop, mobile and mbasic is served, the
\* run goes on and the cascade runs over exactly the variants served.
C11_OneVariantSuffices ==
    (Real /\ platform = "facebook" /\ \E k \in 1..3 : fb.served[FbVariantLabels[k]] = "ok") =>
        /\ ~(ret.kind = "raise" /\ ret.msg \in FetchFailureMsgs)
        /\ fb.variants = SelectSeq(FbVariantLabels, LAMBDA v : fb.served[v] = "ok")

\* A targeted extractor has returned.
TargetedReturned == call.fn = "extract_targeted" /\ call.state = "returned"
NumericTarget(t) == IsSome(t) /\ Val(t).isdigit

\* The document is two items, each a quoted identifier next to its own
\* metric block (identifier first or block first); one item is the target's.
IsItem(html, i) ==
    \/ html[i].k \in {"T", "O"} /\ html[i + 1].k = "m"
    \/ html[i].k = "m" /\ html[i + 1].k \in {"T", "O"}
ItemId(html, i) == IF html[i].k = "m" THEN html[i + 1].k ELSE html[i].k
ItemValue(html, i) == IF html[i].k = "m" THEN html[i].v ELSE html[i + 1].v
TwoItems(html) ==
    /\ Len(html) = 4 /\ IsItem(html, 1) /\ IsItem(html, 3)
    /\ {ItemId(html, 1), ItemId(html, 3)} = {"T", "O"}
OwnValue(html) == IF ItemId(html, 1) = "T" THEN ItemValue(html, 1) ELSE ItemValue(html, 3)

\* C12: on a document of several items, each block next to its own quoted
\* identifier, targeted extraction with a numeric identifier that occurs in
\* the document returns the value of the target's own block, whether the
\* block follows or precedes the identifier and whichever item comes first.
C12_OwnBlockOnly ==
    (TargetedReturned /\ NumericTarget(call.target_id) /\ TwoItems(call.html)) =>
        call.out.value = Some(OwnValue(call.html))

\* Piece j is a metric block inside the forward (backward) window of the
\* occurrence at piece i.
InForward(html, i, j, t) ==
    /\ html[j].k = "m"
    /\ StartOf(html, j, t) >= StartOf(html, i, t)
    /\ EndOf(html, j, t) <= StartOf(html, i, t) + WindowChars
InBackward(html, i, j, t) ==
    /\ html[j].k = "m"
    /\ EndOf(html, j, t) <= StartOf(html, i, t)
    /\ StartOf(html, j, t) >= StartOf(html, i, t) - WindowChars
Occurrences(html) == {i \in 1..Len(html) : html[i].k = "T"}
NoMatchAt(html, i, t) ==
    \A j \in 1..Len(html) : ~InForward(html, i, j, t) /\ ~InBackward(html, i, j, t)
FirstInForward(html, i, j, t) ==
    InForward(html, i, j, t) /\ \A k \in 1..(j - 1) : ~InForward(html, i, k, t)
FirstInBackward(html, i, j, t) ==
    /\ \A k \in 1..Len(html) : ~InForward(html, i, k, t)
    /\ InBackward(html, i, j, t) /\ \A k \in 1..(j - 1) : ~InBackward(html, i, k, t)

C14_UntargetedOnlyAsFallback ==
    TargetedReturned =>
        LET html == call.html
            t == call.target_id
        IN  /\ NumericTarget(t) <=> call.out.windowed
            /\ call.out.untargeted <=>
                  \/ ~NumericTarget(t)
                  \/ \A i \in Occurrences(html) : NoMatchAt(html, i, t)

ExternalCalls == {"net", "subprocess", "profile"}

\* C15: in every run the politeness delay RATE_LIMIT_DELAY comes before the
\* first network request or subprocess call of the run.
C15_DelayBeforeFirstCall ==
    (Real /\ platform \in Platforms) =>
        \A i \in 1..Len(log) :
            log[i] \in ExternalCalls => \E j \in 1..(i - 1) : log[j] = "delay"

\* The engagement rate of the specification, in hundredths: the exact
\* quotient 100 * e / v rounded to two decimals, halfway cases to even.
SpecRound(e, v) ==
    LET q == (10000 * e) \div v
        r == (10000 * e) % v
    IN  IF 2 * r < v THEN q
        ELSE IF 2 * r > v THEN q + 1
        ELSE IF q % 2 = 0 THEN q ELSE q + 1
NullAsZero(o) == IF IsNone(o) THEN 0 ELSE Val(o)
SpecEngagementRate(views, likes, comments, shares) ==
    IF IsNone(views) \/ views = Some(0) THEN None
    ELSE IF IsNone(likes) /\ IsNone(comments) /\ IsNone(shares) THEN None
    ELSE Some(SpecRound(NullAsZero(likes) + NullAsZero(comments) + NullAsZero(shares),
                        Val(views)))

EngagementReturned ==
    call.fn = "calculate_engagement_rate_from_dict" /\ call.state = "returned"

\* C16: _calculate_engagement_rate_from_dict returns missing[k] true exactly
\* when input k is null, and the rate of the specification: null without
\* positive views or without any engagement input, else
\* round(100 * (likes + comments + shares) / views, 2) with nulls as 0.
C16_EngagementRateFunction ==
    EngagementReturned =>
        LET md == call.metadata
        IN  /\ \A k \in {"views", "likes", "comments", "shares"} :
                  call.out.missing[k] <=> IsNone(md[k])
            /\ call.out.rate = SpecEngagementRate(md.views, md.likes, md.comments, md.shares)

\* C17: the engagement rate of every returned record is the rate of the
\* specification for that record's views, likes, comments and shares.
C17_OneRateFormula ==
    (ReturnedPair /\ ~Failed(ret.post)) =>
        ret.post.Post_engagement_rate =
            SpecEngagementRate(ret.post.Post_views, ret.post.Post_likes,
                               ret.post.Post_comments, ret.post.Post_shares)

\* C18: in every returned post record the engagement rate is non-null only
\* if the views of the same record are a positive integer.
C18_RateNeedsPositiveViews ==
    (ReturnedPair /\ IsSome(ret.post.Post_engagement_rate)) =>
        (IsSome(ret.post.Post_views) /\ Val(ret.post.Post_views) > 0)

\* A record with a rate was returned by the Facebook extractor, whose views
\* come from the og:title step.
C18_Witness ==
    /\ ReturnedPair /\ platform = "facebook"
    /\ IsSome(ret.post.Post_engagement_rate)

YouTubeReturned == call.fn = "youtube_extract_metadata" /\ call.state = "returned"

\* C19: a returned record keeps 'unknown' and 'zero' apart: a metric the
\* source reports, 0 included, is reported with that value and is never
\* null, and a text the source does not give is null, not a placeholder.
C19_UnknownIsNotZero ==
    YouTubeReturned =>
        /\ call.out.post.Post_views = Some(call.video.viewCount)
        /\ call.out.post.Post_likes = Some(call.video.likeCount)
        /\ call.out.post.Post_comments = Some(call.video.commentCount)
        /\ IsNone(call.out.post.Post_shares)
        /\ call.out.op.OP_followers = call.subscribers

\* C20: two runs for the same author give the same OP id: whenever a run
\* knows the author, the OP id it returns is a digest of the author
\* identity and has no part drawn at random.
C20_OpIdFromAuthor ==
    (ReturnedPair /\ ~Failed(ret.post) /\ TruthyStr(ret.op.OP_username)) =>
        /\ IsSome(ret.op.OP_ID)
        /\ Val(ret.op.OP_ID).kind # "rnd"

GenerateIdReturned ==
    call.fn \in {"generate_post_id", "generate_op_id"} /\ call.state = "returned"
IdPrefix(fn) == IF fn = "generate_post_id" THEN "po" ELSE "op"

\* C21: generate_post_id / generate_op_id called with a seed, the empty
\* string included, return the prefix and the leading hex digits of
\* SHA-256(seed), hence the same id on every call with that seed; called
\* without a seed they return the prefix and characters drawn at random.
C21_SeededIdIsDigest ==
    GenerateIdReturned =>
        /\ call.out.prefix = IdPrefix(call.fn)
        /\ IF IsSome(call.seed)
           THEN call.out = MkId(IdPrefix(call.fn), "sha256", Val(call.seed), 0)
           ELSE call.out.kind = "rnd"

DetectLanguageReturned ==
    call.fn \in {"detect_language", "_detect_language"} /\ call.state = "returned"

\* The first 200 characters of a string, as runs.
RECURSIVE FirstChars(_, _)
FirstChars(runs, limit) ==
    IF runs = <<>> \/ limit = 0 THEN <<>>
    ELSE LET take == Min2(Head(runs).n, limit)
         IN  <<Run(Head(runs).c, take)>> \o FirstChars(Tail(runs), limit - take)
AsciiChars(runs) ==
    ClassCount(runs, "a", StrLen(runs)) + ClassCount(runs, "s", StrLen(runs))

\* C22: detect_language returns null exactly when the text is empty or not
\* a string; otherwise it returns 'en' if more than 0.8 of the first 200
\* characters are code points below 128 and 'other' if not (0.8 itself gives
\* 'other'), whatever follows the first 200 characters.
C22_DetectLanguage ==
    DetectLanguageReturned =>
        LET text == call.text
        IN  IF text.type # "str" THEN call.out = None
            ELSE IF StrLen(text.runs) = 0 THEN call.out = None
            ELSE LET sample == FirstChars(text.runs, SampleChars)
                 IN  call.out = IF 5 * AsciiChars(sample) > 4 * StrLen(sample)
                                THEN Some("en") ELSE Some("other")

\* C23: in every post record an extractor returns, Post_language is 'en',
\* 'other' or null.
C23_LanguageEnum ==
    ReturnedPair => ret.post.Post_language \in {None, Some("en"), Some("other")}

PostTypes == {"video", "image", "text", "article", "link", "unknown"}

\* C24: the Post_type of every returned record follows the per-platform
\* table: 'video' for TikTok and YouTube, 'article' for news, 'unknown' for
\* Facebook, one of video / image / text / link for Reddit ('text' only with
\* body text present); no value outside the six post types appears.
C24_PostTypeTable ==
    (ReturnedPair /\ ~Failed(ret.post)) =>
        /\ IsSome(ret.post.Post_type)
        /\ Val(ret.post.Post_type) \in PostTypes
        /\ platform \in {"tiktok", "youtube"} => ret.post.Post_type = Some("video")
        /\ platform = "news" => ret.post.Post_type = Some("article")
        /\ platform = "facebook" => ret.post.Post_type = Some("unknown")
        /\ platform = "reddit" =>
              /\ Val(ret.post.Post_type) \in {"video", "image", "text", "link"}
              /\ ret.post.Post_type = Some("text") => ret.post.Post_caption = Some("x")

\* C25: in a TikTok run the profile subprocess is started only after the
\* post subprocess has completed successfully and the pause between the two
\* has elapsed; after a failed post step it is never started.
C25_ProfileAfterPost ==
    (Real /\ platform = "tiktok") =>
        \A i \in 1..Len(log) :
            log[i] = "profile" =>
                /\ IsSome(tt.post_data_raw)
                /\ i >= 3
                /\ log[i - 1] = "sleep"
                /\ log[i - 2] = "subprocess"

\* A run in which both subprocesses ran has returned its pair.
C25_Witness ==
    /\ ReturnedPair /\ platform = "tiktok"
    /\ \E i \in 1..Len(log) : log[i] = "profile"
    /\ IsSome(ret.op.OP_followers)

Count(seq, e) == Cardinality({i \in 1..Len(seq) : seq[i] = e})

\* C26: no external call is retried within a run: after the back-off on a
\* YouTube rate-limit response no request follows and the run is Failed, and
\* every Facebook variant URL, the TikTok post page and the Reddit JSON URL
\* are requested at most once.
C26_NoRetry ==
    (Real /\ platform \in Platforms) =>
        /\ platform = "youtube" =>
              \A i \in 1..Len(log) :
                  log[i] = "sleep" => /\ i = Len(log)
                                      /\ pc # "fetching" => Failed(ret.post)
        /\ platform = "reddit" => Count(log, "net") <= 1
        /\ platform = "facebook" =>
              Count(log, "net") <= 1 + (IF url.www THEN 3 ELSE 1)
        /\ platform = "tiktok" => Count(tt.requests, "post_page") <= 1

AllThreadsDone == \A t \in Threads : threads[t].pc = "done"

\* C27: when several News runs execute concurrently, sys.stderr is, once all
\* of them have finished, the stream it was before any of them started,
\* under every interleaving of their save, redirect and restore steps.
C27_StderrRestored ==
    (pc = "concurrent" /\ AllThreadsDone) => sys_stderr = OrigStderr

TerminalStatuses == {"success", "partial", "failed"}
MaxVariants == 3

\* C28: every run of extract() eventually ends in exactly one terminal
\* outcome, a returned record whose status is success, partial or failed,
\* and the variant loop runs at most three iterations.
C28_RunEndsInOneOutcome ==
    /\ (Real /\ platform \in Platforms) =>
           <>(ReturnedPair /\ ret.post.extraction_status \in TerminalStatuses)
    /\ [](fb.i <= MaxVariants /\ Len(fb.parsed) <= MaxVariants)

\* The columns of a Post row that come neither from a Post_ key nor from a
\* status key.
OtherColumns(row) ==
    DOMAIN row \ ({Unprefixed[k] : k \in PostPrefixed} \cup StatusKeys)

\* C29: the foreign-key link survives CSV export: the Post row the app
\* builds for a returned pair holds the post's OP ID and OP username, equal
\* to the ID and username columns of the OP row built for the same pair, and
\* no field of the record is dropped.
C29_ForeignKeyInCsv ==
    (pc = "shown" /\ Real /\ IsSome(rerun.displayed)) =>
        LET rows == Val(rerun.displayed)
        IN  /\ IsSome(rows.op["ID"])
            /\ rows.op["ID"] = metadata.dict.OP_ID
            /\ rows.op["username"] = metadata.dict.OP_username
            /\ Cardinality(OtherColumns(rows.post)) = 2
            /\ \A c \in OtherColumns(rows.post) :
                  rows.post[c] \in {rows.op["ID"], rows.op["username"]}
            /\ Cardinality(DOMAIN rows.post) = Cardinality(DOMAIN metadata.dict)

Shown(md) == md.dict.extraction_status \in {"success", "partial"}

\* C30: after any sequence of user actions last_metadata is None or a
\* record whose status is success or partial; a click on extract with a
\* non-empty URL that does not end in such a record leaves it None and
\* displays nothing, and what is displayed is the record stored by the
\* latest successful click.
C30_SessionHoldsLatestResult ==
    pc = "app" =>
        LET last == session_state.last_metadata
            clicked == rerun.extract_button /\ rerun.url_input # "empty"
            obtained == rerun.url_input = "supported" /\ Shown(rerun.metadata)
        IN  /\ IsSome(last) => Shown(Val(last))
            /\ (clicked /\ ~obtained) => (IsNone(last) /\ IsNone(rerun.displayed))
            /\ (clicked /\ obtained) => last = Some(rerun.metadata)
            /\ ~clicked => last = rerun.before
            /\ rerun.displayed =
                  IF IsSome(last) THEN Some(display_results(Val(last))) ELSE None

\* A result was stored, and a later click with an invalid URL cleared it.
C30_Witness ==
    /\ pc = "app" /\ IsSome(rerun.before)
    /\ rerun.extract_button /\ rerun.url_input = "invalid"
    /\ IsNone(session_state.last_metadata) /\ IsNone(rerun.displayed)

=============================================================================
